---- MODULE Spec2Model ----
(***************************************************************************)
(* A model of the winutils helper library: the Library token around a     *)
(* Win32 module handle (src/src/library.rs) with the part of the OS       *)
(* loader it talks to, and the WideString buffer (src/src/wstring.rs).     *)
(***************************************************************************)
EXTENDS Integers, Sequences, FiniteSets, TLC

VARIABLES tokens, refCount, last, buf, wlast, shown, calc, held, target, apt, inits, ilast

libVars == <<tokens, refCount, last>>
wideVars == <<buf, wlast>>
convVars == <<calc>>
initVars == <<target, apt, inits, ilast>>
vars == <<tokens, refCount, last, buf, wlast, shown, calc, held, target, apt, inits, ilast>>

(* ------------------------------ bounds -------------------------------- *)
MaxTokens == 1
MaxFreeNow == 1
MaxPathLen == 1
MaxNameLen == 1
MaxTextLen == 1
MaxSize == 3
MaxRawLen == 2
MaxJunk == 1
MaxBufLen == 4
MaxInits == 2
MaxNesting == 3

(* ------------------------- sequences of units ------------------------- *)
RECURSIVE SeqsUpTo(_, _)
SeqsUpTo(S, n) ==
    IF n = 0 THEN {<< >>}
    ELSE LET shorter == SeqsUpTo(S, n - 1)
         IN  shorter \cup {Append(s, x) : s \in {t \in shorter : Len(t) = n - 1}, x \in S}

\* Number of units before the first zero unit: what a C reader of the run sees.
RECURSIVE ScanLen(_)
ScanLen(s) == IF s = << >> \/ Head(s) = 0 THEN 0 ELSE 1 + ScanLen(Tail(s))

CStr(s) == SubSeq(s, 1, ScanLen(s))

\* An encoder that keeps the low 16 bits of every scalar value.
EncodeChar_truncated(c) == <<c % 65536>>

\* OsStr::encode_wide of one Unicode scalar value.
EncodeChar(c) ==
    IF c < 65536 THEN <<c>>
    ELSE <<55296 + ((c - 65536) \div 1024), 56320 + ((c - 65536) % 1024)>>

RECURSIVE EncodeWide(_)
EncodeWide(text) ==
    IF text = << >> THEN << >> ELSE EncodeChar(Head(text)) \o EncodeWide(Tail(text))

get_wide_string(text) == EncodeWide(text) \o <<0>>

(* ------------------------------ the OS -------------------------------- *)
NULL == "null"
Handles == {"hUser32", "hKernel32"}

\* Scalar values of the path alphabet: 'K', 'U' and 'X'.
PathChars == {75, 85, 88}
Paths == SeqsUpTo(PathChars, MaxPathLen)

\* Files the loader can map, by their wide name: "U" and "K".
FileModule(file) ==
    IF file = <<85>> THEN "hUser32"
    ELSE IF file = <<75>> THEN "hKernel32"
    ELSE NULL

\* Bytes of the symbol-name alphabet: NUL and 'M'.
NameBytes == {0, 77}
Names == SeqsUpTo(NameBytes, MaxNameLen)

\* The export table of each module: "M" in one, "M" and "MM" in the other.
Exports(h) == IF h = "hUser32" THEN {<<77>>} ELSE {<<77>>, <<77, 77>>}

NullProc == [mod |-> NULL, sym |-> << >>]
Proc(h, sym) == [mod |-> h, sym |-> sym]

Loaded(rc) == {h \in Handles : rc[h] > 0}

\* LoadLibraryW: the handles the loader may return for the wide path w.
LoadLibraryW(w, rc) ==
    LET file == CStr(w)
    IN  IF file = << >> THEN {NULL} \cup Loaded(rc)
        ELSE {FileModule(file)}

LoadErrors == {"ERROR_MOD_NOT_FOUND", "ERROR_BAD_EXE_FORMAT"}

\* GetModuleHandleW: no reference is taken.
GetModuleHandleW(w, rc) ==
    LET file == CStr(w)
    IN  IF file = << >> THEN {NULL} \cup Loaded(rc)
        ELSE IF FileModule(file) \in Loaded(rc) THEN {FileModule(file)}
        ELSE {NULL}

\* FreeLibrary: BOOL result and the reference counts after the call. The null
\* handle and a handle that names no loaded module are refused.
FreeLibraryOk(h, rc) == h \in Handles /\ rc[h] > 0

FreeLibraryRc(h, rc) ==
    IF FreeLibraryOk(h, rc) THEN [rc EXCEPT ![h] = rc[h] - 1] ELSE rc

\* GetProcAddress: the addresses the resolver may return. A handle that names
\* no loaded module is stale: the result is whatever lives there now.
GetProcAddress(h, bytes, rc) ==
    LET sym == CStr(bytes)
    IN  IF h \in Loaded(rc)
        THEN IF sym \in Exports(h) THEN {Proc(h, sym)} ELSE {NullProc}
        ELSE {NullProc} \cup {Proc(m, sym) : m \in {x \in Loaded(rc) : sym \in Exports(x)}}

(* ---------------------------- Library --------------------------------- *)
NoToken == [live |-> FALSE, handle |-> NULL, lib_type |-> "Static",
            origin |-> "none", frees |-> 0]

Slots == 1..MaxTokens

FreeSlots == {t \in Slots : ~tokens[t].live}
LiveSlots == {t \in Slots : tokens[t].live}

NoSlot == [some |-> FALSE, addr |-> NullProc]

Idle == [op |-> "init", tok |-> 0, res |-> "none", err |-> "none", code |-> "none",
         os |-> NULL, oserr |-> "none", raw |-> NULL, dyn |-> FALSE, path |-> << >>, name |-> << >>,
         freed |-> << >>, asked |-> << >>, slot |-> NoSlot, ret |-> NULL, proc |-> NullProc,
         toks |-> [t \in Slots |-> NoToken], before |-> [h \in Handles |-> 0]]

\* The record of a call: its name, and the tokens and reference counts it found.
Call(op) == [Idle EXCEPT !.op = op, !.toks = tokens, !.before = refCount]

LibInit ==
    /\ tokens = [t \in Slots |-> NoToken]
    /\ refCount = [h \in Handles |-> IF h = "hKernel32" THEN 1 ELSE 0]
    /\ last = Idle

Tok(handle, lib_type, origin) ==
    [live |-> TRUE, handle |-> handle, lib_type |-> lib_type, origin |-> origin,
     frees |-> 0]

Failed(err, code) == [ok |-> FALSE, err |-> err, code |-> code, token |-> NoToken]
Made(token) == [ok |-> TRUE, err |-> "none", code |-> "none", token |-> token]

\* load without the null test of the returned handle.
load_result_unchecked(handle, e) == Made(Tok(handle, "Dynamic", "load"))

\* Library::load after the LoadLibraryW call: e is the thread's last OS error.
load_result(handle, e) ==
    IF handle = NULL THEN Failed("OsStatus", e)
    ELSE Made(Tok(handle, "Dynamic", "load"))

\* from_handle without the null test.
from_handle_result_unchecked(handle, dynamic) ==
    Made(Tok(handle, IF dynamic THEN "Dynamic" ELSE "Static", "from_handle"))

\* Library::from_handle.
from_handle_result(handle, dynamic) ==
    IF handle = NULL THEN Failed("InvalidInput", "none")
    ELSE Made(Tok(handle, IF dynamic THEN "Dynamic" ELSE "Static", "from_handle"))

\* get_static_lib without the test of the name's length.
get_static_lib_result_any_name(path, handle) ==
    IF handle = NULL THEN Failed("InvalidInput", "none")
    ELSE Made(Tok(handle, "Static", "get_static_lib"))

\* Library::get_static_lib after the GetModuleHandleW call.
get_static_lib_result(path, handle) ==
    IF handle = NULL \/ Len(path) = 0 THEN Failed("InvalidInput", "none")
    ELSE Made(Tok(handle, "Static", "get_static_lib"))

\* Library::empty.
empty_result == Made(Tok(NULL, "Static", "empty"))

\* A constructor's result reaches the caller: an Ok value is stored in the
\* caller's lowest unused variable, an Err value creates nothing.
Commit(r, call) ==
    IF r.ok
    THEN /\ FreeSlots # {}
         /\ LET t == CHOOSE x \in FreeSlots : \A y \in FreeSlots : x <= y
            IN  /\ tokens' = [tokens EXCEPT ![t] = r.token]
                /\ last' = [call EXCEPT !.res = "Ok", !.tok = t]
    ELSE /\ tokens' = tokens
         /\ last' = [call EXCEPT !.res = "Err", !.err = r.err, !.code = r.code]

\* io::Error::last_os_error() right after the call reads the status the
\* failed LoadLibraryW left behind.
load(path) ==
    \E handle \in LoadLibraryW(get_wide_string(path), refCount) :
    \E e \in IF handle = NULL THEN LoadErrors ELSE {"none"} :
        /\ refCount' = IF handle = NULL THEN refCount
                       ELSE [refCount EXCEPT ![handle] = @ + 1]
        /\ Commit(load_result(handle, e),
                  [Call("load") EXCEPT !.path = path, !.os = handle, !.oserr = e])
        /\ UNCHANGED <<wideVars, shown, convVars, held, initVars>>

from_handle(raw, dynamic) ==
    /\ Commit(from_handle_result(raw, dynamic),
              [Call("from_handle") EXCEPT !.raw = raw, !.dyn = dynamic])
    /\ refCount' = refCount
    /\ UNCHANGED <<wideVars, shown, convVars, held, initVars>>

get_static_lib(path) ==
    \E handle \in GetModuleHandleW(get_wide_string(path), refCount) :
        /\ refCount' = refCount
        /\ Commit(get_static_lib_result(path, handle),
                  [Call("get_static_lib") EXCEPT !.path = path, !.os = handle])
        /\ UNCHANGED <<wideVars, shown, convVars, held, initVars>>

empty ==
    /\ Commit(empty_result, Call("empty"))
    /\ refCount' = refCount
    /\ UNCHANGED <<wideVars, shown, convVars, held, initVars>>

\* Library::handle.
handle(t) ==
    /\ tokens[t].live
    /\ last' = [Call("handle") EXCEPT !.tok = t, !.ret = tokens[t].handle]
    /\ UNCHANGED <<tokens, refCount>>
    /\ UNCHANGED <<wideVars, shown, convVars, held, initVars>>

\* The handles Library::free_lib passes to FreeLibrary, in order.
free_lib_calls(tk) == <<tk.handle>>

\* free_lib clearing the stored handle.
free_lib_self_nulled(tk) == [tk EXCEPT !.handle = NULL]

\* The token as Library::free_lib leaves it (it takes &self).
free_lib_self(tk) == tk

\* A destructor that unloads whatever the classification.
drop_calls_always(tk) == <<tk.handle>>

\* The handles the destructor passes to FreeLibrary, in order.
drop_calls(tk) == IF tk.lib_type = "Dynamic" THEN <<tk.handle>> ELSE << >>

\* The reference counts after FreeLibrary was called on each handle of calls.
RECURSIVE FreeAll(_, _)
FreeAll(calls, rc) ==
    IF calls = << >> THEN rc ELSE FreeAll(Tail(calls), FreeLibraryRc(Head(calls), rc))

free_lib(t) ==
    /\ tokens[t].live
    /\ tokens[t].frees < MaxFreeNow
    /\ LET tk == tokens[t]
           calls == free_lib_calls(tk)
       IN  /\ refCount' = FreeAll(calls, refCount)
           /\ tokens' = [tokens EXCEPT
                            ![t] = [free_lib_self(tk) EXCEPT !.frees = @ + Len(calls)]]
           /\ last' = [Call("free_lib") EXCEPT
                          !.tok = t, !.freed = calls,
                          !.res = IF calls # << >> /\ FreeLibraryOk(calls[1], refCount)
                                  THEN "true" ELSE "false"]
    /\ UNCHANGED <<wideVars, shown, convVars, held, initVars>>

drop(t) ==
    /\ tokens[t].live
    /\ LET tk == tokens[t]
           calls == drop_calls(tk)
       IN  /\ refCount' = FreeAll(calls, refCount)
           /\ tokens' = [tokens EXCEPT ![t] = NoToken]
           /\ last' = [Call("drop") EXCEPT !.tok = t, !.freed = calls]
    /\ UNCHANGED <<wideVars, shown, convVars, held, initVars>>

\* CString::new: an interior NUL byte is an error.
CStringNew(name) ==
    IF \E i \in 1..Len(name) : name[i] = 0
    THEN [ok |-> FALSE, bytes |-> << >>]
    ELSE [ok |-> TRUE, bytes |-> name \o <<0>>]

\* Reading the FARPROC as Option<F>, F a function pointer: null is None.
read_option(proc) ==
    IF proc = NullProc THEN NoSlot ELSE [some |-> TRUE, addr |-> proc]

\* load_func falling back to the empty name as unsafe_func does.
load_func_asks_default(name) ==
    IF CStringNew(name).ok THEN <<CStringNew(name).bytes>> ELSE <<<<0>>>>

\* The byte strings Library::load_func passes to GetProcAddress, in order.
load_func_asks(name) ==
    IF CStringNew(name).ok THEN <<CStringNew(name).bytes>> ELSE << >>

\* The byte strings Library::unsafe_func passes to GetProcAddress:
\* unwrap_or_default turns a name CString::new rejects into the empty CString.
unsafe_func_asks(name) ==
    IF CStringNew(name).ok THEN <<CStringNew(name).bytes>> ELSE <<<<0>>>>

\* unwrap_unchecked in place of unwrap.
unsafe_func_unwrap_unchecked(opt) == "Ok"

\* Option::unwrap of the slot read back in Library::unsafe_func.
unsafe_func_unwrap(opt) == IF opt.some THEN "Ok" ELSE "Panic"

load_func(t, name) ==
    /\ tokens[t].live
    /\ LET asks == load_func_asks(name)
           call == [Call("load_func") EXCEPT !.tok = t, !.name = name, !.asked = asks]
       IN  IF asks = << >>
           THEN /\ last' = [call EXCEPT !.slot = NoSlot, !.res = "Ok"]
           ELSE \E proc \in GetProcAddress(tokens[t].handle, asks[1], refCount) :
                /\ last' = [call EXCEPT !.slot = read_option(proc), !.proc = proc,
                                        !.res = "Ok"]
    /\ UNCHANGED <<tokens, refCount>>
    /\ UNCHANGED <<wideVars, shown, convVars, held, initVars>>

unsafe_func(t, name) ==
    /\ tokens[t].live
    /\ LET asks == unsafe_func_asks(name)
           call == [Call("unsafe_func") EXCEPT !.tok = t, !.name = name, !.asked = asks]
       IN  \E proc \in GetProcAddress(tokens[t].handle, asks[1], refCount) :
                /\ last' = [call EXCEPT !.slot = read_option(proc), !.proc = proc,
                                        !.res = unsafe_func_unwrap(read_option(proc))]
    /\ UNCHANGED <<tokens, refCount>>
    /\ UNCHANGED <<wideVars, shown, convVars, held, initVars>>

(* ---------------------------- WideString ------------------------------ *)
\* Scalar values of the text alphabet: U+0000, 'A' and U+1F600.
TextChars == {0, 65, 128512}
Texts == SeqsUpTo(TextChars, MaxTextLen)

\* The 16-bit units raw memory is drawn from: the terminator, 'A' and the two
\* halves of U+1F600.
Units == {0, 65, 55357, 56832}

\* str::len: the length of the text in UTF-8 bytes.
Utf8CharLen(c) ==
    IF c < 128 THEN 1 ELSE IF c < 2048 THEN 2 ELSE IF c < 65536 THEN 3 ELSE 4

RECURSIVE Utf8Len(_)
Utf8Len(text) ==
    IF text = << >> THEN 0 ELSE Utf8CharLen(Head(text)) + Utf8Len(Tail(text))

RECURSIVE Zeros(_)
Zeros(n) == IF n <= 0 THEN << >> ELSE <<0>> \o Zeros(n - 1)

\* Vec::resize(size, 0).
Resize(v, size) ==
    IF size <= Len(v) THEN SubSeq(v, 1, size) ELSE v \o Zeros(size - Len(v))

\* Vec::pop, its result dropped.
Pop(v) == IF v = << >> THEN v ELSE SubSeq(v, 1, Len(v) - 1)

\* impl From<&str> for WideString.
from_str(text) == get_wide_string(text)

\* impl Default for WideString.
default == <<0>>

\* WideString::empty.
empty_bytes == << >>

\* WideString::with_size.
with_size(size) == IF size = 0 THEN default ELSE Resize(<< >>, size)

\* from_str_with_size that pads and never cuts.
from_str_with_size_grow_only(text, size) ==
    IF size <= Len(get_wide_string(text)) THEN get_wide_string(text)
    ELSE Resize(get_wide_string(text), size)

\* WideString::from_str_with_size.
from_str_with_size(text, size) == Resize(get_wide_string(text), size)

\* from_raw_ptr stopping short of the zero unit.
from_raw_ptr_no_terminator(mem) == SubSeq(mem, 1, ScanLen(mem))

\* WideString::from_raw_ptr on the memory that starts at the pointer and holds a
\* zero unit: the units up to and including the first zero.
from_raw_ptr(mem) == SubSeq(mem, 1, ScanLen(mem) + 1)

\* The memory a scan from a pointer may walk: the run at the pointer when it
\* holds a zero unit; when it holds none the scan leaves the allocation and
\* reads whatever follows, up to the first zero unit found there.
Walks(run) ==
    IF \E i \in 1..Len(run) : run[i] = 0 THEN {run}
    ELSE {run \o junk \o <<0>> : junk \in SeqsUpTo(Units \ {0}, MaxJunk)}

\* push_wide keeping the terminator of self.
push_wide_no_pop(self, other) ==
    IF Len(other) > 0 THEN self \o other ELSE self

\* push_wide putting other in front of self.
push_wide_swapped(self, other) ==
    IF Len(other) > 0 THEN Pop(other) \o self ELSE self

\* WideString::push_wide.
push_wide(self, other) ==
    IF Len(other) > 0 THEN Pop(self) \o other ELSE self

\* push_str keeping the terminator of self.
push_str_no_pop(self, text) ==
    IF Utf8Len(text) # 0 THEN self \o (EncodeWide(text) \o <<0>>) ELSE self

\* WideString::push_str.
push_str(self, text) ==
    IF Utf8Len(text) # 0 THEN Pop(self) \o (EncodeWide(text) \o <<0>>) ELSE self

\* The surrogate halves of UTF-16.
IsHigh(u) == 55296 <= u /\ u <= 56319
IsLow(u) == 56320 <= u /\ u <= 57343

\* String::from_utf16_lossy: a high half followed by a low half is one scalar
\* value, any other half is U+FFFD, every other unit is itself.
RECURSIVE from_utf16_lossy(_)
from_utf16_lossy(units) ==
    IF units = << >> THEN << >>
    ELSE IF IsHigh(units[1]) /\ Len(units) >= 2 /\ IsLow(units[2])
    THEN <<65536 + (units[1] - 55296) * 1024 + (units[2] - 56320)>>
             \o from_utf16_lossy(SubSeq(units, 3, Len(units)))
    ELSE IF IsHigh(units[1]) \/ IsLow(units[1])
    THEN <<65533>> \o from_utf16_lossy(Tail(units))
    ELSE <<units[1]>> \o from_utf16_lossy(Tail(units))

\* What a to_string call gives: a String, or a panic.
NotShown == [done |-> FALSE, panic |-> FALSE, text |-> << >>]
Shows(text) == [done |-> TRUE, panic |-> FALSE, text |-> text]
Panics == [done |-> TRUE, panic |-> TRUE, text |-> << >>]

\* to_string with a saturating length - 1.
to_string_saturating(bytes) ==
    Shows(from_utf16_lossy(SubSeq(bytes, 1, Len(bytes) - 1)))

\* Display for WideString: the units before the last one, decoded.  On a
\* buffer of length 0 the length - 1 overflows usize: a build with overflow
\* checks panics at the subtraction, a build without them wraps to usize::MAX
\* and panics at the slice index, which is past the end of any buffer.
to_string(bytes) ==
    IF Len(bytes) = 0 THEN Panics
    ELSE Shows(from_utf16_lossy(SubSeq(bytes, 1, Len(bytes) - 1)))

\* Display for WideStr: the run before the first zero unit, decoded.
display(mem) == Shows(from_utf16_lossy(SubSeq(mem, 1, (ScanLen(mem) + 1) - 1)))

\* How a buffer came to be, beside its units: "empty" for WideString::empty,
\* "zeros" for with_size of two units or more, "resized" for from_str_with_size
\* with a size other than the text's units plus one, "nul_text" for a text that
\* holds U+0000.
TextTags(text) == IF \E i \in 1..Len(text) : text[i] = 0 THEN {"nul_text"} ELSE {}

Built(bytes, tags) == [bytes |-> bytes, tags |-> tags]

RawRuns == {m \in SeqsUpTo(Units, MaxRawLen) : \E i \in 1..Len(m) : m[i] = 0}

Sizes == 0..MaxSize

FromTexts == {Built(from_str(text), TextTags(text)) : text \in Texts}

Sized == {Built(with_size(size), IF size >= 2 THEN {"zeros"} ELSE {}) : size \in Sizes}

Padded ==
    {Built(from_str_with_size(text, size),
           TextTags(text) \cup
               (IF size = Len(EncodeWide(text)) + 1 THEN {} ELSE {"resized"})) :
        text \in Texts, size \in Sizes}

FromRaw == {Built(from_raw_ptr(mem), {}) : mem \in RawRuns}

\* The buffers a caller can hand to push_wide: what the constructors return.
Others ==
    {Built(empty_bytes, {"empty"}), Built(default, {})}
        \cup FromTexts \cup Sized \cup Padded \cup FromRaw

WideInit ==
    /\ buf = Built(default, {})
    /\ wlast = "default"
    /\ shown = NotShown

do_from(text) ==
    /\ buf' = Built(from_str(text), TextTags(text))
    /\ wlast' = "from"
    /\ shown' = NotShown
    /\ UNCHANGED <<libVars, convVars, held, initVars>>

do_default ==
    /\ buf' = Built(default, {})
    /\ wlast' = "default"
    /\ shown' = NotShown
    /\ UNCHANGED <<libVars, convVars, held, initVars>>

do_empty ==
    /\ buf' = Built(empty_bytes, {"empty"})
    /\ wlast' = "empty"
    /\ shown' = NotShown
    /\ UNCHANGED <<libVars, convVars, held, initVars>>

do_with_size(size) ==
    /\ buf' = Built(with_size(size), IF size >= 2 THEN {"zeros"} ELSE {})
    /\ wlast' = "with_size"
    /\ shown' = NotShown
    /\ UNCHANGED <<libVars, convVars, held, initVars>>

do_from_str_with_size(text, size) ==
    /\ buf' = Built(from_str_with_size(text, size),
                    TextTags(text) \cup
                        (IF size = Len(EncodeWide(text)) + 1 THEN {} ELSE {"resized"}))
    /\ wlast' = "from_str_with_size"
    /\ shown' = NotShown
    /\ UNCHANGED <<libVars, convVars, held, initVars>>

do_from_raw_ptr(mem) ==
    /\ buf' = Built(from_raw_ptr(mem), {})
    /\ wlast' = "from_raw_ptr"
    /\ shown' = NotShown
    /\ UNCHANGED <<libVars, convVars, held, initVars>>

\* WideStr::from(&buffer).to_wide_string(): a copy through a view of the buffer.
copy_from_view ==
    \E mem \in Walks(buf.bytes) :
        /\ buf' = Built(from_raw_ptr(mem), {})
        /\ wlast' = "to_wide_string"
        /\ shown' = NotShown
        /\ UNCHANGED <<libVars, convVars, held, initVars>>

do_push_wide ==
    \E other \in Others :
        /\ Len(push_wide(buf.bytes, other.bytes)) <= MaxBufLen
        /\ buf' = Built(push_wide(buf.bytes, other.bytes),
                        IF Len(other.bytes) > 0 THEN buf.tags \cup other.tags
                        ELSE buf.tags)
        /\ wlast' = "push_wide"
        /\ shown' = NotShown
        /\ UNCHANGED <<libVars, convVars, held, initVars>>

do_push_str ==
    \E text \in Texts :
        /\ Len(push_str(buf.bytes, text)) <= MaxBufLen
        /\ buf' = Built(push_str(buf.bytes, text), buf.tags \cup TextTags(text))
        /\ wlast' = "push_str"
        /\ shown' = NotShown
        /\ UNCHANGED <<libVars, convVars, held, initVars>>

\* buffer.to_string().
do_to_string ==
    /\ shown' = to_string(buf.bytes)
    /\ wlast' = "to_string"
    /\ UNCHANGED <<buf, libVars, convVars, held, initVars>>

WideNext ==
    \/ \E size \in Sizes : do_with_size(size)
    \/ \E text \in Texts : do_from(text)
    \/ do_default
    \/ do_empty
    \/ \E text \in Texts, size \in Sizes : do_from_str_with_size(text, size)
    \/ \E mem \in RawRuns : do_from_raw_ptr(mem)
    \/ copy_from_view
    \/ do_push_wide
    \/ do_push_str
    \/ do_to_string

(* ----------------------- WideString: conversions ---------------------- *)
\* "Hello world!", the text of the wide_str test and of the wstr example.
HelloWorld == <<72, 101, 108, 108, 111, 32, 119, 111, 114, 108, 100, 33>>

\* The texts, sizes, buffers and memory runs the functions are applied to: the
\* bounded ones, and those of the examples: "Hello world!" in 32 units;
\* "Hello ", "world" and "!" pushed one after the other; a pointer to "USER\0",
\* alone and followed by more memory.
ConvTexts ==
    Texts \cup {HelloWorld, <<72, 101, 108, 108, 111, 32>>,
                <<119, 111, 114, 108, 100>>, <<33>>}

ConvSizes == Sizes \cup {32}

ConvBufs ==
    {o.bytes : o \in Others}
        \cup {from_str(<<72, 101, 108, 108, 111, 32>>),
              push_str(from_str(<<72, 101, 108, 108, 111, 32>>),
                       <<119, 111, 114, 108, 100>>),
              from_str(<<33>>)}

ConvRuns ==
    RawRuns \cup {<<85, 83, 69, 82, 0>>, <<85, 83, 69, 82, 0, 65, 0>>}

NoCalc == [op |-> "none", text |-> << >>, size |-> 0, self |-> << >>,
           other |-> << >>, mem |-> << >>, out |-> << >>, str |-> NotShown]

\* Nothing has been computed yet; each run of the specification applies one
\* function to one input.
ConvInit == calc = NoCalc

\* WideString::from(text).to_string().
conv_from(text) ==
    /\ calc = NoCalc
    /\ calc' = [NoCalc EXCEPT !.op = "from", !.text = text, !.out = from_str(text),
                              !.str = to_string(from_str(text))]
    /\ UNCHANGED <<libVars, wideVars, shown, held, initVars>>

\* WideString::from_str_with_size(text, size).
conv_from_str_with_size(text, size) ==
    /\ calc = NoCalc
    /\ calc' = [NoCalc EXCEPT !.op = "from_str_with_size", !.text = text,
                              !.size = size, !.out = from_str_with_size(text, size)]
    /\ UNCHANGED <<libVars, wideVars, shown, held, initVars>>

\* self.push_wide(&other), then self.to_string().
conv_push_wide(self, other) ==
    /\ calc = NoCalc
    /\ calc' = [NoCalc EXCEPT !.op = "push_wide", !.self = self, !.other = other,
                              !.out = push_wide(self, other),
                              !.str = to_string(push_wide(self, other))]
    /\ UNCHANGED <<libVars, wideVars, shown, held, initVars>>

\* self.push_str(text), then self.to_string().
conv_push_str(self, text) ==
    /\ calc = NoCalc
    /\ calc' = [NoCalc EXCEPT !.op = "push_str", !.self = self, !.text = text,
                              !.out = push_str(self, text),
                              !.str = to_string(push_str(self, text))]
    /\ UNCHANGED <<libVars, wideVars, shown, held, initVars>>

\* WideStr::from(ptr): to_wide_string() and to_string() of the view, mem the
\* memory at the pointer.
conv_view(mem) ==
    /\ calc = NoCalc
    /\ calc' = [NoCalc EXCEPT !.op = "view", !.mem = mem, !.out = from_raw_ptr(mem),
                              !.str = display(mem)]
    /\ UNCHANGED <<libVars, wideVars, shown, held, initVars>>

ConvNext ==
    \/ \E text \in ConvTexts : conv_from(text)
    \/ \E text \in ConvTexts, size \in ConvSizes : conv_from_str_with_size(text, size)
    \/ \E self \in ConvBufs, other \in ConvBufs : conv_push_wide(self, other)
    \/ \E self \in ConvBufs, text \in ConvTexts : conv_push_str(self, text)
    \/ \E mem \in ConvRuns : conv_view(mem)

(* ----------------------------- FnWrapper ------------------------------ *)
SlotInit == held = NoSlot

\* load_func taking a loader reference for the module of the address it found.
load_func_refs_pinned(rc, slot) ==
    IF slot.some THEN [rc EXCEPT ![slot.addr.mod] = @ + 1] ELSE rc

\* The reference counts after Library::load_func: its one OS call is
\* GetProcAddress, which takes no reference.
load_func_refs(rc, slot) == rc

\* let func = lib.load_func(name): the wrapper is kept by the caller.
keep_func(t, name) ==
    /\ tokens[t].live
    /\ LET asks == load_func_asks(name)
           call == [Call("load_func") EXCEPT !.tok = t, !.name = name, !.asked = asks]
       IN  \E proc \in IF asks = << >> THEN {NullProc}
                       ELSE GetProcAddress(tokens[t].handle, asks[1], refCount) :
                /\ held' = read_option(proc)
                /\ refCount' = load_func_refs(refCount, read_option(proc))
                /\ last' = [call EXCEPT !.slot = read_option(proc), !.proc = proc,
                                        !.res = "Ok"]
    /\ UNCHANGED <<tokens, wideVars, shown, convVars, initVars>>

\* FnWrapper::is_valid.
is_valid ==
    /\ last' = [Call("is_valid") EXCEPT
                   !.slot = held, !.res = IF held.some THEN "true" ELSE "false"]
    /\ UNCHANGED <<tokens, refCount, held, wideVars, shown, convVars, initVars>>

\* FnWrapper::unwrap: Option::unwrap of the wrapper, which it consumes; the
\* caller is left with no wrapper.
unwrap ==
    /\ last' = [Call("unwrap") EXCEPT
                   !.slot = held, !.proc = held.addr,
                   !.res = IF held.some THEN "Ok" ELSE "Panic"]
    /\ held' = NoSlot
    /\ UNCHANGED <<tokens, refCount, wideVars, shown, convVars, initVars>>

SlotNext ==
    \/ \E path \in Paths : load(path)
    \/ \E t \in Slots, name \in Names : keep_func(t, name)
    \/ is_valid
    \/ unwrap
    \/ \E t \in Slots : free_lib(t)
    \/ \E t \in Slots : drop(t)

(* ------------------------- ComInit and RoInit -------------------------- *)
\* The build targets the crate compiles for.
Targets == {"msvc", "gnu"}

\* The thread's apartment: its concurrency model and its reference count.
NoApartment == [model |-> "none", count |-> 0]

\* COINIT_APARTMENTTHREADED is 2, COINIT_MULTITHREADED is 0.
CoModel(dwcoinit) == IF dwcoinit = 2 THEN "STA" ELSE "MTA"

\* RO_INIT_SINGLETHREADED is 0, RO_INIT_MULTITHREADED is 1.
RoModel(initType) == IF initType = 0 THEN "STA" ELSE "MTA"

\* Entering an apartment: S_OK (0) on the thread's first initialisation,
\* S_FALSE (1) when the thread is already in that model, which still takes a
\* reference, RPC_E_CHANGED_MODE when it is in the other model, and
\* E_OUTOFMEMORY at any time; the two failures take no reference.
Enter(a, model) ==
    {[hr |-> -2147024882, apt |-> a]} \cup
    (IF a.count = 0 THEN {[hr |-> 0, apt |-> [model |-> model, count |-> 1]]}
     ELSE IF a.model = model THEN {[hr |-> 1, apt |-> [a EXCEPT !.count = @ + 1]]}
     ELSE {[hr |-> -2147417850, apt |-> a]})

\* Leaving: one reference is given back, the last one closes the apartment.
Leave(a) ==
    IF a.count <= 1 THEN NoApartment ELSE [a EXCEPT !.count = @ - 1]

CoInitializeEx(a, dwcoinit) == Enter(a, CoModel(dwcoinit))
RoInitialize(a, initType) == Enter(a, RoModel(initType))
CoUninitialize(a) == Leave(a)
RoUninitialize(a) == Leave(a)

NoInits == [com |-> 0, ro |-> 0]

InitIdle == [op |-> "none", hr |-> 0, res |-> "none", err |-> "none", code |-> 0,
             calls |-> << >>, before |-> NoApartment, had |-> NoInits]

InitCall(op) == [InitIdle EXCEPT !.op = op, !.before = apt, !.had = inits]

ScopedInit ==
    /\ apt = NoApartment
    /\ inits = NoInits
    /\ ilast = InitIdle

\* What the constructors make of the HRESULT: anything but 0 is an
\* io::Error::from_raw_os_error.
init_result(hr) ==
    IF hr # 0 THEN [ok |-> FALSE, res |-> "Err", err |-> "OsStatus", code |-> hr]
    ELSE [ok |-> TRUE, res |-> "Ok", err |-> "none", code |-> 0]

\* RoInit constructors returning an error of kind Unsupported on gnu.
ro_init_gnu_unsupported ==
    [ok |-> FALSE, res |-> "Err", err |-> "Unsupported", code |-> 0]

\* The RoInit constructors on target_env = "gnu": unimplemented!().
ro_init_gnu == [ok |-> FALSE, res |-> "Panic", err |-> "unimplemented", code |-> 0]

\* The caller has room for one more token, and the apartment for one more
\* reference.
Room == inits.com + inits.ro < MaxInits /\ apt.count < MaxNesting

ComInit_init_sta ==
    /\ Room
    /\ \E o \in CoInitializeEx(apt, 2) :
        LET r == init_result(o.hr)
        IN  /\ apt' = o.apt
            /\ inits' = [inits EXCEPT !.com = IF r.ok THEN @ + 1 ELSE @]
            /\ ilast' = [InitCall("ComInit::init_sta") EXCEPT
                            !.hr = o.hr, !.res = r.res, !.err = r.err, !.code = r.code,
                            !.calls = <<"CoInitializeEx">>]
    /\ UNCHANGED <<target, libVars, wideVars, shown, convVars, held>>

ComInit_init_mta ==
    /\ Room
    /\ \E o \in CoInitializeEx(apt, 0) :
        LET r == init_result(o.hr)
        IN  /\ apt' = o.apt
            /\ inits' = [inits EXCEPT !.com = IF r.ok THEN @ + 1 ELSE @]
            /\ ilast' = [InitCall("ComInit::init_mta") EXCEPT
                            !.hr = o.hr, !.res = r.res, !.err = r.err, !.code = r.code,
                            !.calls = <<"CoInitializeEx">>]
    /\ UNCHANGED <<target, libVars, wideVars, shown, convVars, held>>

RoInit_init_sta ==
    /\ Room
    /\ IF target = "msvc"
       THEN \E o \in RoInitialize(apt, 0) :
                LET r == init_result(o.hr)
                IN  /\ apt' = o.apt
                    /\ inits' = [inits EXCEPT !.ro = IF r.ok THEN @ + 1 ELSE @]
                    /\ ilast' = [InitCall("RoInit::init_sta") EXCEPT
                                    !.hr = o.hr, !.res = r.res, !.err = r.err,
                                    !.code = r.code, !.calls = <<"RoInitialize">>]
       ELSE /\ apt' = apt
            /\ inits' = [inits EXCEPT !.ro = IF ro_init_gnu.ok THEN @ + 1 ELSE @]
            /\ ilast' = [InitCall("RoInit::init_sta") EXCEPT
                            !.res = ro_init_gnu.res, !.err = ro_init_gnu.err]
    /\ UNCHANGED <<target, libVars, wideVars, shown, convVars, held>>

RoInit_init_mta ==
    /\ Room
    /\ IF target = "msvc"
       THEN \E o \in RoInitialize(apt, 1) :
                LET r == init_result(o.hr)
                IN  /\ apt' = o.apt
                    /\ inits' = [inits EXCEPT !.ro = IF r.ok THEN @ + 1 ELSE @]
                    /\ ilast' = [InitCall("RoInit::init_mta") EXCEPT
                                    !.hr = o.hr, !.res = r.res, !.err = r.err,
                                    !.code = r.code, !.calls = <<"RoInitialize">>]
       ELSE /\ apt' = apt
            /\ inits' = [inits EXCEPT !.ro = IF ro_init_gnu.ok THEN @ + 1 ELSE @]
            /\ ilast' = [InitCall("RoInit::init_mta") EXCEPT
                            !.res = ro_init_gnu.res, !.err = ro_init_gnu.err]
    /\ UNCHANGED <<target, libVars, wideVars, shown, convVars, held>>

\* Drop for ComInit.
ComInit_drop ==
    /\ inits.com > 0
    /\ apt' = CoUninitialize(apt)
    /\ inits' = [inits EXCEPT !.com = @ - 1]
    /\ ilast' = [InitCall("ComInit::drop") EXCEPT !.calls = <<"CoUninitialize">>]
    /\ UNCHANGED <<target, libVars, wideVars, shown, convVars, held>>

\* Drop for RoInit, which exists on target_env = "msvc" only.
RoInit_drop ==
    /\ inits.ro > 0
    /\ apt' = IF target = "msvc" THEN RoUninitialize(apt) ELSE apt
    /\ inits' = [inits EXCEPT !.ro = @ - 1]
    /\ ilast' = [InitCall("RoInit::drop") EXCEPT
                    !.calls = IF target = "msvc" THEN <<"RoUninitialize">> ELSE << >>]
    /\ UNCHANGED <<target, libVars, wideVars, shown, convVars, held>>

InitNext ==
    \/ ComInit_init_sta
    \/ ComInit_init_mta
    \/ RoInit_init_sta
    \/ RoInit_init_mta
    \/ ComInit_drop
    \/ RoInit_drop

(* --------------------------- specifications --------------------------- *)
RawHandles == Handles \cup {NULL}

Next ==
    \/ \E path \in Paths : get_static_lib(path)
    \/ \E path \in Paths : load(path)
    \/ \E raw \in RawHandles, dynamic \in BOOLEAN : from_handle(raw, dynamic)
    \/ empty
    \/ \E t \in Slots : handle(t)
    \/ \E t \in Slots : free_lib(t)
    \/ \E t \in Slots, name \in Names : load_func(t, name)
    \/ \E t \in Slots, name \in Names : unsafe_func(t, name)
    \/ \E t \in Slots : drop(t)

\* The state after construction, in a build for the msvc target.
Init == LibInit /\ WideInit /\ ConvInit /\ SlotInit /\ ScopedInit /\ target = "msvc"

\* The same in a build for either target.
InitAnyTarget ==
    LibInit /\ WideInit /\ ConvInit /\ SlotInit /\ ScopedInit /\ target \in Targets

Spec == Init /\ [][Next]_vars

WideSpec == Init /\ [][WideNext]_vars

ConvSpec == Init /\ [][ConvNext]_vars

SlotSpec == Init /\ [][SlotNext]_vars

InitSpec == InitAnyTarget /\ [][InitNext]_vars

(* ------------------------- Library: properties ------------------------ *)
\* The token the last call acted on, as the call found it and as it left it.
Was == last.toks[last.tok]
Now == tokens[last.tok]

HasNul(name) == \E i \in 1..Len(name) : name[i] = 0

\* The call changed no token other than the one in slot t.
OthersKept(t) == \A u \in Slots \ {t} : tokens[u] = last.toks[u]

\* C1: the destructor passes the token's handle to FreeLibrary exactly once
\* when the token is Dynamic and makes no call and changes no count when it is
\* Static; dropping a token that load created lowers the count of its module
\* by exactly one whenever the loader still holds a reference to lower (as it
\* does when the drop follows the load), and changes no other count.
C1_DropUnloads ==
    last.op = "drop" =>
        /\ Was.lib_type = "Dynamic" => last.freed = <<Was.handle>>
        /\ Was.lib_type = "Static" => last.freed = << >> /\ refCount = last.before
        /\ Was.origin = "get_static_lib" => refCount = last.before
        /\ Was.origin = "empty" => last.freed = << >> /\ refCount = last.before
        /\ (Was.origin = "load" /\ last.before[Was.handle] > 0) =>
               refCount = [last.before EXCEPT ![Was.handle] = @ - 1]
        /\ ~Now.live

C1_Witness ==
    /\ last.op = "drop"
    /\ Was.origin = "load"
    /\ Was.frees = 0
    /\ last.freed = <<Was.handle>>
    /\ refCount[Was.handle] = last.before[Was.handle] - 1

\* C2: over the life of a token that load created, FreeLibrary is called on its
\* handle exactly once (free_lib calls plus the destructor's), whatever was
\* called on the token before it was dropped.
C2_OneUnloadPerToken ==
    (last.op = "drop" /\ Was.origin = "load") =>
        Was.frees + Len(last.freed) = 1

\* C3 as stated: free_lib on a Dynamic token leaves it Dynamic with the null
\* handle, which handle() then returns.
C3_FreeNowNullsHandle ==
    /\ (last.op = "free_lib" /\ Was.lib_type = "Dynamic") =>
           Now.lib_type = "Dynamic" /\ Now.handle = NULL
    /\ (last.op = "handle" /\ Now.lib_type = "Dynamic" /\ Now.frees > 0) =>
           last.ret = NULL

\* C3 as amended: free_lib on a Dynamic token leaves its classification and its
\* stored handle as they were, so the token stays Dynamic with the same non-null
\* (now stale) handle, and handle() returns that handle afterwards.
C3_FreeNowKeepsHandle ==
    /\ (last.op = "free_lib" /\ Was.lib_type = "Dynamic") =>
           /\ Now.lib_type = "Dynamic"
           /\ Now.handle = Was.handle
           /\ Now.handle # NULL
           /\ OthersKept(last.tok)
    /\ (last.op = "handle" /\ Now.lib_type = "Dynamic" /\ Now.frees > 0) =>
           last.ret = Now.handle /\ last.ret # NULL

C3_Witness ==
    /\ last.op = "handle"
    /\ Now.lib_type = "Dynamic"
    /\ Now.frees > 0
    /\ last.ret \in Handles

\* C4: free_lib on a Static token calls FreeLibrary not at all and leaves every
\* reference count as it was.
C4_FreeNowStaticNoOp ==
    (last.op = "free_lib" /\ Was.lib_type = "Static") =>
        last.freed = << >> /\ refCount = last.before

\* C5: when LoadLibraryW returns null, load returns the error that carries the
\* status the OS left, no token comes to exist and no count changes; otherwise
\* it returns a Dynamic token holding exactly the handle the OS returned.
C5_Load ==
    last.op = "load" =>
        IF last.os = NULL
        THEN /\ last.res = "Err"
             /\ last.err = "OsStatus"
             /\ last.code = last.oserr
             /\ last.code \in LoadErrors
             /\ tokens = last.toks
             /\ refCount = last.before
        ELSE /\ last.res = "Ok"
             /\ last.tok \in Slots
             /\ ~Was.live
             /\ Now = Tok(last.os, "Dynamic", "load")
             /\ OthersKept(last.tok)

C5_Witness ==
    /\ last.op = "load"
    /\ last.os = NULL
    /\ last.res = "Err"
    /\ last.code \in LoadErrors
    /\ tokens = last.toks

\* C6: get_static_lib fails with InvalidInput when the name is empty, whatever
\* GetModuleHandleW returned for it, and when GetModuleHandleW returned null;
\* otherwise it returns a Static token holding the returned handle; it never
\* changes a reference count.
C6_AttachResident ==
    last.op = "get_static_lib" =>
        /\ refCount = last.before
        /\ IF last.path = << >> \/ last.os = NULL
           THEN /\ last.res = "Err"
                /\ last.err = "InvalidInput"
                /\ tokens = last.toks
           ELSE /\ last.res = "Ok"
                /\ last.tok \in Slots
                /\ Now = Tok(last.os, "Static", "get_static_lib")
                /\ OthersKept(last.tok)

C6_Witness ==
    /\ last.op = "get_static_lib"
    /\ last.path = << >>
    /\ last.os \in Handles
    /\ last.err = "InvalidInput"
    /\ tokens = last.toks

\* C7: a live Dynamic token holds a non-null handle, and a live token with the
\* null handle is the Static placeholder of empty(); from_handle fails with
\* InvalidInput on the null handle and otherwise returns a token holding the
\* given handle that is Dynamic exactly when the flag is true.
C7_HandleInvariant ==
    /\ \A t \in Slots :
           tokens[t].live =>
               /\ tokens[t].lib_type = "Dynamic" => tokens[t].handle # NULL
               /\ tokens[t].handle = NULL =>
                      tokens[t].origin = "empty" /\ tokens[t].lib_type = "Static"
    /\ last.op = "from_handle" =>
           IF last.raw = NULL
           THEN last.res = "Err" /\ last.err = "InvalidInput" /\ tokens = last.toks
           ELSE /\ last.res = "Ok"
                /\ last.tok \in Slots
                /\ Now.handle = last.raw
                /\ (Now.lib_type = "Dynamic") <=> last.dyn
                /\ Now.lib_type \in {"Dynamic", "Static"}
                /\ OthersKept(last.tok)

C7_Witness ==
    /\ last.op = "free_lib"
    /\ Now.live
    /\ Now.origin = "from_handle"
    /\ Now.lib_type = "Dynamic"
    /\ Now.handle \in Handles

\* C8: load_func never panics; for a name holding a NUL byte it returns the
\* empty slot and GetProcAddress is not called; otherwise GetProcAddress is
\* called once, with the name, and the slot is valid exactly when the address
\* returned is not null, that address being the one the slot holds.
C8_LookupTotal ==
    last.op = "load_func" =>
        /\ last.res = "Ok"
        /\ tokens = last.toks /\ refCount = last.before
        /\ IF HasNul(last.name)
           THEN last.asked = << >> /\ last.slot = NoSlot
           ELSE /\ last.asked = <<last.name \o <<0>>>>
                /\ last.slot.some <=> (last.proc # NullProc)
                /\ last.slot.addr = last.proc

C8_Witness ==
    /\ last.op = "load_func"
    /\ HasNul(last.name)
    /\ ~last.slot.some
    /\ last.asked = << >>

\* C9: unsafe_func panics when the name holds a NUL byte and when the resolver
\* returns no address, and returns the address, typed, only when the name is a
\* valid C string and the resolver found the export.
C9_UncheckedPanics ==
    last.op = "unsafe_func" =>
        /\ HasNul(last.name) => last.res = "Panic"
        /\ last.proc = NullProc => last.res = "Panic"
        /\ last.res \in {"Ok", "Panic"}
        /\ last.res = "Ok" =>
               /\ ~HasNul(last.name)
               /\ last.proc # NullProc
               /\ last.proc.sym = last.name
               /\ last.slot = [some |-> TRUE, addr |-> last.proc]

C9_Witness ==
    /\ last.op = "unsafe_func"
    /\ HasNul(last.name)
    /\ last.asked = <<<<0>>>>
    /\ last.res = "Panic"

(* ----------------------- WideString: properties ----------------------- *)
\* The last unit is the terminator and no other unit is: a scan from ptr()
\* finds the first terminator at offset length - 1.
Terminated(bytes) ==
    /\ Len(bytes) >= 1
    /\ bytes[Len(bytes)] = 0
    /\ \A i \in 1..(Len(bytes) - 1) : bytes[i] # 0
    /\ ScanLen(bytes) = Len(bytes) - 1

\* C10 as stated: every buffer built without WideString::empty (from texts
\* free of U+0000) ends with the terminator and holds no other zero unit.
C10_AlwaysTerminated ==
    buf.tags \cap {"empty", "nul_text"} = {} => Terminated(buf.bytes)

\* C10 as amended: the same of every buffer built from texts free of U+0000 by
\* from, default, with_size of at most one unit, from_str_with_size with the
\* size of the text's units plus one, from_raw_ptr and the copy through a view,
\* and by push_str and push_wide among such buffers.
C10_TerminatedWhenPlain ==
    buf.tags = {} => Terminated(buf.bytes)

C10_Witness ==
    /\ wlast = "push_wide"
    /\ buf.tags = {}
    /\ Len(buf.bytes) >= 3
    /\ Terminated(buf.bytes)

\* Number of 16-bit units of a text: one for a scalar value of the basic
\* plane, two for any other.
RECURSIVE UnitLen(_)
UnitLen(text) ==
    IF text = << >> THEN 0
    ELSE (IF Head(text) < 65536 THEN 1 ELSE 2) + UnitLen(Tail(text))

\* C11: from_str_with_size(text, size) has exactly size units, and they are
\* the first size units of the text's units followed by zeros without end:
\* with size above the text's units plus one the terminator sits right after
\* the text and every unit from there to the end is zero; with size below it
\* the result is the first size units of the text, the terminator cut off.
C11_PaddedLength ==
    calc.op = "from_str_with_size" =>
        LET units == EncodeWide(calc.text)
            n == calc.size
            r == calc.out
        IN  /\ Len(units) = UnitLen(calc.text)
            /\ Len(r) = n
            /\ \A i \in 1..n : r[i] = IF i <= Len(units) THEN units[i] ELSE 0
            /\ n > Len(units) + 1 =>
                   /\ r[Len(units) + 1] = 0
                   /\ \A i \in (Len(units) + 1)..n : r[i] = 0
            /\ n < Len(units) + 1 => r = SubSeq(units, 1, n)

C11_Witness ==
    /\ calc.op = "from_str_with_size"
    /\ calc.text = HelloWorld
    /\ calc.size = 32
    /\ Len(calc.out) = 32
    /\ SubSeq(calc.out, 1, 12) = HelloWorld
    /\ \A i \in 13..32 : calc.out[i] = 0

\* self ends with a high half right before its last unit and other begins
\* with a low half: joined, the two halves are one scalar value.
JoinsPair(self, other) ==
    /\ Len(self) >= 2
    /\ Len(other) >= 1
    /\ IsHigh(self[Len(self) - 1])
    /\ IsLow(other[1])

\* C12 as stated: for all non-empty buffers self and other, after
\* self.push_wide(other) the buffer decodes to the to_string of self followed
\* by the to_string of other, and has exactly one terminator, at its end.
C12_ConcatDecodes ==
    (calc.op = "push_wide" /\ Len(calc.self) > 0 /\ Len(calc.other) > 0) =>
        /\ calc.str = Shows(to_string(calc.self).text \o to_string(calc.other).text)
        /\ Terminated(calc.out)

\* C12, amended: for buffers self and other whose only terminator is their
\* last unit, after self.push_wide(other) the buffer is self without its
\* terminator followed by other, has exactly one terminator, at its end, and
\* decodes to the to_string of self followed by the to_string of other, unless
\* self ends with a high surrogate and other begins with a low one: the two
\* then decode as one character and the strings differ.
C12_ConcatWhenTerminated ==
    (calc.op = "push_wide" /\ Terminated(calc.self) /\ Terminated(calc.other)) =>
        /\ calc.out = SubSeq(calc.self, 1, Len(calc.self) - 1) \o calc.other
        /\ Terminated(calc.out)
        /\ calc.str.done /\ ~calc.str.panic
        /\ JoinsPair(calc.self, calc.other) <=>
               calc.str.text # to_string(calc.self).text \o to_string(calc.other).text

C12_Witness ==
    /\ calc.op = "push_wide"
    /\ calc.self = <<72, 101, 108, 108, 111, 32, 119, 111, 114, 108, 100, 0>>
    /\ calc.other = <<33, 0>>
    /\ Len(calc.out) = 13
    /\ calc.str = Shows(HelloWorld)

\* C13: push_str(text) with a text that is not empty, on a buffer whose last
\* unit is the terminator, leaves the buffer without that terminator followed
\* by the text's units and one terminator: the length grows by the text's
\* units and the last unit is 0; with the empty text the buffer is unchanged.
\* from("Hello "), push_str("world"), push_wide(from("!")) is 13 units that
\* decode to "Hello world!".
C13_PushNative ==
    calc.op = "push_str" =>
        /\ calc.text = << >> => calc.out = calc.self
        /\ (calc.text # << >> /\ Len(calc.self) >= 1 /\ calc.self[Len(calc.self)] = 0) =>
               /\ calc.out = SubSeq(calc.self, 1, Len(calc.self) - 1)
                                 \o EncodeWide(calc.text) \o <<0>>
               /\ Len(calc.out) = Len(calc.self) + UnitLen(calc.text)
               /\ calc.out[Len(calc.out)] = 0
        /\ (calc.self = from_str(<<72, 101, 108, 108, 111, 32>>)
                /\ calc.text = <<119, 111, 114, 108, 100>>) =>
               /\ Len(push_wide(calc.out, from_str(<<33>>))) = 13
               /\ to_string(push_wide(calc.out, from_str(<<33>>))) = Shows(HelloWorld)

C13_Witness ==
    /\ calc.op = "push_str"
    /\ calc.self = <<72, 101, 108, 108, 111, 32, 0>>
    /\ calc.text = <<119, 111, 114, 108, 100>>
    /\ Len(calc.out) = 12
    /\ calc.out[12] = 0

\* C14: for every text, from(text) has the text's units plus one, its last
\* unit is the terminator, and its to_string is the text.
C14_RoundTrip ==
    calc.op = "from" =>
        /\ Len(calc.out) = UnitLen(calc.text) + 1
        /\ calc.out[Len(calc.out)] = 0
        /\ calc.str = Shows(calc.text)

C14_Witness ==
    /\ calc.op = "from"
    /\ calc.text = <<128512>>
    /\ calc.out = <<55357, 56832, 0>>
    /\ calc.str = Shows(<<128512>>)

\* The place of the first zero unit of a run that holds one.
FirstZero(mem) == CHOOSE k \in 1..Len(mem) : mem[k] = 0 /\ \A i \in 1..(k - 1) : mem[i] # 0

\* C15: the copy made from a view is the run up to and including the first
\* zero unit and nothing after it, and the view displays that run without the
\* zero unit, decoded, as the copy's to_string does: "USER\0" gives 5 units that
\* decode to "USER", with or without more memory after the zero unit.
C15_ViewCopies ==
    calc.op = "view" =>
        LET k == FirstZero(calc.mem)
        IN  /\ calc.out = SubSeq(calc.mem, 1, k)
            /\ Terminated(calc.out)
            /\ calc.str = Shows(from_utf16_lossy(SubSeq(calc.mem, 1, k - 1)))
            /\ calc.str = to_string(calc.out)
            /\ (Len(calc.mem) >= 5 /\ SubSeq(calc.mem, 1, 5) = <<85, 83, 69, 82, 0>>) =>
                   /\ Len(calc.out) = 5
                   /\ calc.str = Shows(<<85, 83, 69, 82>>)

C15_Witness ==
    /\ calc.op = "view"
    /\ calc.mem = <<85, 83, 69, 82, 0, 65, 0>>
    /\ calc.out = <<85, 83, 69, 82, 0>>
    /\ calc.str = Shows(<<85, 83, 69, 82>>)

(* --------------------- ComInit and RoInit: properties ------------------ *)
\* C16 as stated: a constructor that returns an error creates no token and
\* makes no uninitialize call, the drop of a token makes the matching
\* uninitialize call exactly once, and when every token has been dropped the
\* apartment's reference count is what it was before the first constructor.
C16_Balanced ==
    /\ ilast.res = "Err" =>
           /\ inits = ilast.had
           /\ \A i \in 1..Len(ilast.calls) :
                  ilast.calls[i] \notin {"CoUninitialize", "RoUninitialize"}
    /\ ilast.op = "ComInit::drop" => ilast.calls = <<"CoUninitialize">>
    /\ ilast.op = "RoInit::drop" => ilast.calls = <<"RoUninitialize">>
    /\ (inits.com = 0 /\ inits.ro = 0) => apt.count = 0

SlotCallsKeepCounts ==
    /\ last.op \in {"load_func", "is_valid", "unwrap"} =>
           refCount = last.before /\ tokens = last.toks
    /\ last.op = "is_valid" =>
           /\ held = last.slot
           /\ last.res = "true" <=> held.some
    /\ last.op = "unwrap" => (last.res = "Ok" <=> last.slot.some)

\* A step that drops the Library or calls free_lib on it.
UnloadStep == last' # last /\ last'.op \in {"drop", "free_lib"}

\* C18: making, holding, asking and taking a wrapper changes no reference
\* count and no token, and the drop of the Library and free_lib leave the
\* wrapper the caller holds as it is, so that is_valid goes on returning true
\* for a wrapper whose module has been unloaded.
C18_SlotOutlivesLibrary ==
    /\ []SlotCallsKeepCounts
    /\ [][UnloadStep => held' = held]_vars

C18_Witness ==
    /\ last.op = "is_valid"
    /\ last.res = "true"
    /\ held.some
    /\ held.addr.mod = "hUser32"
    /\ refCount["hUser32"] = 0
    /\ \A t \in Slots : ~tokens[t].live

====
